---- MODULE Spec2Model ----
(***************************************************************************)
(* Model of Btree<KeyT, ValueT, ComparatorT, kCapacity> (src/src/btree.h): *)
(* a B+ tree with one shared_mutex per node and a tree-wide global_mutex.  *)
(* Threads run get and put; every lock operation and every access to the   *)
(* root pointer is a step of its own, the code between two such points is  *)
(* one step.                                                               *)
(*                                                                         *)
(* Arrays keys[], values[], children[] have kCapacity slots, indexed from  *)
(* 0 as in the source.  A store at an index >= kCapacity lands outside the *)
(* array (Store drops it and the step raises oob); a load at such an index *)
(* yields an arbitrary value (Load takes it as a parameter the action      *)
(* draws with \E).  unlock_shared on a mutex the thread does not hold is   *)
(* undefined: the step either leaves the mutex alone or takes away a hold  *)
(* of another reader.  lock_shared by a thread that already holds the      *)
(* mutex shared succeeds when no writer holds it (reader preference).      *)
(***************************************************************************)
EXTENDS Integers, Sequences, FiniteSets, TLC

\* ------------------------------------------------------------------ bounds
NumThreads == 2
MaxCapacity == 3
MaxKey == 4
MaxOps == 5
MaxGets == 1

Threads == 1..NumThreads
Keys == 1..MaxKey
\* A put of key k carries a value that differs from the one last put for k.
Vals == 1..2
\* kCapacity is a template parameter; the model draws it once, in Init.
Capacities == 2..MaxCapacity
\* The workload: thread t puts the keys of its own contiguous range and the last
\* key, which all threads share; a thread running alone puts any key.
RangeLen == MaxKey \div NumThreads
Range(t) == ((t - 1) * RangeLen + 1)..(t * RangeLen)

NoThread == 0
NullPtr == 0
Nullopt == 0
NoKey == 0

VARIABLES
    capacity,   \* kCapacity of this instantiation
    root,       \* Btree::root (NullPtr or a node id)
    global_mutex, \* holder of Btree::global_mutex (NoThread when free)
    heap,       \* the allocated nodes, by id: level, key_count, keys, values, children
    wr,         \* per node: the thread holding mtx exclusively (NoThread when none)
    rd,         \* per node: per thread, the number of shared holds of mtx
    th,         \* per thread: position in get/put and its local variables
    nput,       \* number of put calls invoked so far
    nget,       \* number of get calls invoked so far
    ref,        \* reference map: key -> value of the most recently invoked put
    putters,    \* key -> the threads that have invoked put on it
    lastIns,    \* key -> value written by the most recent LeafNode::insert of it
    single,     \* TRUE when one thread runs alone (SeqSpec)
    hist,       \* when single: the keys of the put calls so far, in order
    oob         \* TRUE once a store at an index >= kCapacity has happened

vars == <<capacity, root, global_mutex, heap, wr, rd, th, nput, nget, ref, putters, lastIns, single, hist, oob>>

\* ------------------------------------------------------------ pure helpers
comparator(a, b) == a < b

Slots == 0..(capacity - 1)

EmptyArray == [i \in Slots |-> 0]

Store(arr, i, v) == IF i \in DOMAIN arr THEN [arr EXCEPT ![i] = v] ELSE arr

Load(arr, i, junk) == IF i \in DOMAIN arr THEN arr[i] ELSE junk

NewLeafNode == [level |-> 0, key_count |-> 0, keys |-> EmptyArray, values |-> EmptyArray, children |-> EmptyArray]

NewInnerNode == [level |-> 1, key_count |-> 0, keys |-> EmptyArray, values |-> EmptyArray, children |-> EmptyArray]

is_leaf(n) == n.level = 0

\* The while loop shared by both lower_bound methods.
RECURSIVE BinarySearch(_, _, _, _, _, _)
BinarySearch(keys, key, left, right, index_found, junk) ==
    IF left <= right
    THEN LET mid == (left + right) \div 2
         IN  IF comparator(Load(keys, mid, junk), key)
             THEN BinarySearch(keys, key, mid + 1, right, index_found, junk)
             ELSE BinarySearch(keys, key, left, mid - 1, mid, junk)
    ELSE index_found

InnerLowerBound(n, key) ==
    IF n.key_count = 0
    THEN <<0, FALSE>>
    ELSE LET index_found == BinarySearch(n.keys, key, 0, n.key_count - 2, -1, NoKey)
         IN  IF index_found = -1 THEN <<n.key_count - 1, FALSE>> ELSE <<index_found, TRUE>>

LeafLowerBound(n, key, junk) ==
    IF n.key_count = 0
    THEN <<0, FALSE>>
    ELSE LET index_found == BinarySearch(n.keys, key, 0, n.key_count - 1, n.key_count, junk)
             found == /\ index_found < n.key_count
                      /\ ~comparator(Load(n.keys, index_found, junk), key)
                      /\ ~comparator(key, Load(n.keys, index_found, junk))
         IN  <<index_found, found>>

\* for (i = key_count; i > index; i--) { keys[i] = keys[i-1]; values[i] = values[i-1]; }
RECURSIVE LeafShift(_, _, _, _)
LeafShift(n, i, index, junk) ==
    IF i > index
    THEN LeafShift([n EXCEPT !.keys = Store(@, i, Load(n.keys, i - 1, junk)),
                             !.values = Store(@, i, Load(n.values, i - 1, junk))],
                   i - 1, index, junk)
    ELSE n

LeafInsert(n, key, value, junk) ==
    LET lb == LeafLowerBound(n, key, junk)
        index == lb[1]
    IN  IF lb[2]
        THEN [n EXCEPT !.values = Store(@, index, value)]
        ELSE LET s == LeafShift(n, n.key_count, index, junk)
             IN  [s EXCEPT !.keys = Store(@, index, key),
                           !.values = Store(@, index, value),
                           !.key_count = n.key_count + 1]

\* Whether LeafNode::insert stores at an index >= kCapacity.
LeafInsertOverflows(n, key, junk) ==
    LET lb == LeafLowerBound(n, key, junk)
    IN  IF lb[2] THEN lb[1] >= capacity ELSE n.key_count >= capacity

LeafSplitMid(n) == n.key_count \div 2

\* A split that truncates this node yet copies nothing into the right neighbour:
\* the upper half of the entries is dropped.
LeafSplitDroppingUpperHalf(n, junk) ==
    LET mid_key_index == LeafSplitMid(n)
    IN  <<[n EXCEPT !.key_count = mid_key_index + 1],
          NewLeafNode,
          Load(n.keys, mid_key_index, junk)>>

\* LeafNode::split: <<this after the split, right_neighbor after it, separator>>
LeafSplit(n, junk) ==
    LET mid_key_index == LeafSplitMid(n)
        left_count == mid_key_index + 1
        right_count == n.key_count - left_count
        right == [NewLeafNode EXCEPT
                    !.key_count = right_count,
                    !.keys = [i \in Slots |-> IF i < right_count
                                 THEN Load(n.keys, mid_key_index + 1 + i, junk) ELSE 0],
                    !.values = [i \in Slots |-> IF i < right_count
                                 THEN Load(n.values, mid_key_index + 1 + i, junk) ELSE 0]]
    IN  <<[n EXCEPT !.key_count = left_count], right, Load(n.keys, mid_key_index, junk)>>

\* for (i = key_count - 1; i > index; i--) { keys[i] = keys[i-1]; children[i+1] = children[i]; }
RECURSIVE InnerShift(_, _, _)
InnerShift(n, i, index) ==
    IF i > index
    THEN InnerShift([n EXCEPT !.keys = Store(@, i, Load(n.keys, i - 1, NoKey)),
                              !.children = Store(@, i + 1, Load(n.children, i, NullPtr))],
                    i - 1, index)
    ELSE n

InsertSplit(n, key, split_child) ==
    LET index == InnerLowerBound(n, key)[1]
        s == InnerShift(n, n.key_count - 1, index)
    IN  [s EXCEPT !.keys = Store(@, index, key),
                  !.children = Store(@, index + 1, split_child),
                  !.key_count = n.key_count + 1]

\* Whether InnerNode::insert_split stores at an index >= kCapacity.
InsertSplitOverflows(n) == n.key_count >= capacity

\* InnerNode::split: <<this after the split, right_neighbor after it, separator>>
\* (the caller sets right_neighbor->level)
InnerSplit(n) ==
    LET mid_key_index == (n.key_count - 1) \div 2
        left_count == mid_key_index + 1
        right_count == n.key_count - left_count
        right == [NewInnerNode EXCEPT
                    !.key_count = right_count,
                    !.keys = [i \in Slots |-> IF i < right_count
                                 THEN Load(n.keys, mid_key_index + 1 + i, NoKey) ELSE 0],
                    !.children = [i \in Slots |-> IF i < right_count
                                 THEN Load(n.children, mid_key_index + 1 + i, NullPtr) ELSE 0]]
    IN  <<[n EXCEPT !.key_count = left_count], right, n.keys[mid_key_index]>>

\* The values a load past the end of a leaf's arrays may yield.
Junk(n) == IF n.key_count > capacity THEN Keys ELSE {NoKey}


\* ------------------------------------------------------------------- state
Idle == [pc |-> "idle", key |-> 0, value |-> 0, root_read |-> 0, current_node |-> 0,
         child_node |-> 0, target |-> 0, right_neighbor_node |-> 0, new_root |-> 0,
         separator_key |-> 0, retkey |-> 0, result |-> 0, released |-> {}]

InitTree ==
    /\ capacity \in Capacities
    /\ root = NullPtr
    /\ global_mutex = NoThread
    /\ heap = <<>>
    /\ wr = <<>>
    /\ rd = <<>>
    /\ th = [t \in Threads |-> Idle]
    /\ nput = 0
    /\ nget = 0
    /\ ref = [k \in Keys |-> Nullopt]
    /\ putters = [k \in Keys |-> {}]
    /\ lastIns = [k \in Keys |-> Nullopt]
    /\ hist = <<>>
    /\ oob = FALSE

Init == InitTree /\ single = FALSE

InitSeq == InitTree /\ single = TRUE

PutKeys(t) == IF single THEN Keys ELSE Range(t) \cup {MaxKey}

NoReaders == [u \in Threads |-> 0]

\* std::shared_mutex: lock() needs no holder at all, lock_shared() no exclusive holder.
CanLockWrite(n) == wr[n] = NoThread /\ rd[n] = NoReaders

CanLockRead(n) == wr[n] = NoThread

\* The outcomes of unlock_shared by t on node n: its hold is given up; when it has
\* none the call is undefined, and the mutex is left alone or loses another hold.
UnlockReadOutcomes(t, n) ==
    IF rd[n][t] > 0
    THEN {[rd EXCEPT ![n][t] = @ - 1]}
    ELSE {rd} \cup {[rd EXCEPT ![n][u] = @ - 1] : u \in {x \in Threads : rd[n][x] > 0}}

\* The outcome of unlock() by t on node n (a no-op in the model when t is not the holder).
UnlockWrite(w, t, n) == IF w[n] = t THEN [w EXCEPT ![n] = NoThread] ELSE w

Ghosts == <<nput, nget, ref, putters, lastIns, single, hist, oob>>

\* ---------------------------------------------------------------- get
\* The call of get(k) and line 185: if (!root) return std::nullopt;
GetCall(t) ==
    /\ th[t].pc = "idle"
    /\ nget < MaxGets
    /\ nput + nget < MaxOps
    /\ \E k \in Keys :
         th' = [th EXCEPT ![t] = IF root = NullPtr
                                 THEN [Idle EXCEPT !.retkey = k, !.result = Nullopt]
                                 ELSE [Idle EXCEPT !.pc = "get_189", !.key = k]]
    /\ nget' = nget + 1
    /\ UNCHANGED <<capacity, root, global_mutex, heap, wr, rd, nput, ref, putters, lastIns, single, hist, oob>>

\* line 189, the load of root in root->lock_read()
GetReadRoot(t) ==
    /\ th[t].pc = "get_189"
    /\ th' = [th EXCEPT ![t] = [@ EXCEPT !.pc = "get_189_lock", !.root_read = root]]
    /\ UNCHANGED <<capacity, root, global_mutex, heap, wr, rd, Ghosts>>

\* line 189, the lock_read() on the node loaded
GetLockRoot(t) ==
    /\ th[t].pc = "get_189_lock"
    /\ CanLockRead(th[t].root_read)
    /\ rd' = [rd EXCEPT ![th[t].root_read][t] = @ + 1]
    /\ th' = [th EXCEPT ![t] = [@ EXCEPT !.pc = "get_190"]]
    /\ UNCHANGED <<capacity, root, global_mutex, heap, wr, Ghosts>>

\* line 190: Node* current_node = root;  (root is loaded again)
GetSetCurrent(t) ==
    /\ th[t].pc = "get_190"
    /\ th' = [th EXCEPT ![t] = [@ EXCEPT !.pc = "get_193", !.current_node = root]]
    /\ UNCHANGED <<capacity, root, global_mutex, heap, wr, rd, Ghosts>>

\* lines 193-196: route in an inner node
GetRoute(t) ==
    /\ th[t].pc = "get_193"
    /\ ~is_leaf(heap[th[t].current_node])
    /\ LET n == heap[th[t].current_node]
           pos == InnerLowerBound(n, th[t].key)[1]
       IN  th' = [th EXCEPT ![t] = [@ EXCEPT !.pc = "get_198",
                                             !.child_node = Load(n.children, pos, NullPtr)]]
    /\ UNCHANGED <<capacity, root, global_mutex, heap, wr, rd, Ghosts>>

\* line 198: child_node->lock_read();
GetLockChild(t) ==
    /\ th[t].pc = "get_198"
    /\ th[t].child_node # NullPtr
    /\ CanLockRead(th[t].child_node)
    /\ rd' = [rd EXCEPT ![th[t].child_node][t] = @ + 1]
    /\ th' = [th EXCEPT ![t] = [@ EXCEPT !.pc = "get_199"]]
    /\ UNCHANGED <<capacity, root, global_mutex, heap, wr, Ghosts>>

\* lines 199-201: current_node->unlock_read(); current_node = child_node;
GetUnlockParent(t) ==
    /\ th[t].pc = "get_199"
    /\ rd' \in UnlockReadOutcomes(t, th[t].current_node)
    /\ th' = [th EXCEPT ![t] = [@ EXCEPT !.pc = "get_193", !.current_node = th[t].child_node,
                                         !.child_node = 0,
                                         !.released = @ \cup {th[t].current_node}]]
    /\ UNCHANGED <<capacity, root, global_mutex, heap, wr, Ghosts>>

\* Line 226 fills the first leaf after line 225 has published it, without its mtx:
\* a get of the key being inserted races with the stores of LeafNode::insert and
\* may see the key with a value slot not yet written, or no key at all.
TornResults(t) ==
    IF \E u \in Threads \ {t} : /\ th[u].pc = "put_226"
                                  /\ th[u].target = th[t].current_node
                                  /\ th[u].key = th[t].key
    THEN Vals \cup {Nullopt}
    ELSE {}

\* lines 204-214: search the leaf, unlock it, return
GetLeaf(t) ==
    /\ th[t].pc = "get_193"
    /\ is_leaf(heap[th[t].current_node])
    /\ \E junk \in Junk(heap[th[t].current_node]) :
         LET n == heap[th[t].current_node]
             lb == LeafLowerBound(n, th[t].key, junk)
             res == IF lb[2] THEN Load(n.values, lb[1], junk) ELSE Nullopt
         IN  \E r \in {res} \cup TornResults(t) :
                th' = [th EXCEPT ![t] = [Idle EXCEPT !.retkey = th[t].key, !.result = r]]
    /\ rd' \in UnlockReadOutcomes(t, th[t].current_node)
    /\ UNCHANGED <<capacity, root, global_mutex, heap, wr, Ghosts>>

\* ---------------------------------------------------------------- put
NextValue(k) == IF ref[k] = 1 THEN 2 ELSE 1

PutCall(t) ==
    /\ th[t].pc = "idle"
    /\ nput + nget < MaxOps
    /\ \E k \in PutKeys(t) :
         /\ th' = [th EXCEPT ![t] = [Idle EXCEPT !.pc = "put_220", !.key = k, !.value = NextValue(k)]]
         /\ ref' = [ref EXCEPT ![k] = NextValue(k)]
         /\ putters' = [putters EXCEPT ![k] = @ \cup {t}]
         /\ hist' = IF single THEN Append(hist, k) ELSE hist
    /\ nput' = nput + 1
    /\ UNCHANGED <<capacity, root, global_mutex, heap, wr, rd, nget, lastIns, single, oob>>

\* line 220: global_mutex.lock();
PutLockGlobal(t) ==
    /\ th[t].pc = "put_220"
    /\ global_mutex = NoThread
    /\ global_mutex' = t
    /\ th' = [th EXCEPT ![t] = [@ EXCEPT !.pc = "put_223"]]
    /\ UNCHANGED <<capacity, root, heap, wr, rd, Ghosts>>

\* lines 223-225: the tree is empty: a new leaf becomes the root
PutEmptyRoot(t) ==
    /\ th[t].pc = "put_223"
    /\ root = NullPtr
    /\ heap' = Append(heap, NewLeafNode)
    /\ wr' = Append(wr, NoThread)
    /\ rd' = Append(rd, NoReaders)
    /\ root' = Len(heap) + 1
    /\ th' = [th EXCEPT ![t] = [@ EXCEPT !.pc = "put_226", !.target = Len(heap) + 1]]
    /\ UNCHANGED <<capacity, global_mutex, Ghosts>>

\* The step leafNode->insert(key, value) of thread t on node id.
InsertIntoLeaf(t, id) ==
    \E junk \in Junk(heap[id]) :
       /\ heap' = [heap EXCEPT ![id] = LeafInsert(heap[id], th[t].key, th[t].value, junk)]
       /\ oob' = (oob \/ LeafInsertOverflows(heap[id], th[t].key, junk))
       /\ lastIns' = [lastIns EXCEPT ![th[t].key] = th[t].value]

\* line 226: leaf->insert(key, value);  (the leaf is already the root)
PutEmptyInsert(t) ==
    /\ th[t].pc = "put_226"
    /\ InsertIntoLeaf(t, th[t].target)
    /\ th' = [th EXCEPT ![t] = [@ EXCEPT !.pc = "put_227"]]
    /\ UNCHANGED <<capacity, root, global_mutex, wr, rd, nput, nget, ref, putters, single, hist>>

\* lines 227-229: global_mutex.unlock(); return;
PutEmptyUnlock(t) ==
    /\ th[t].pc = "put_227"
    /\ global_mutex' = NoThread
    /\ th' = [th EXCEPT ![t] = Idle]
    /\ UNCHANGED <<capacity, root, heap, wr, rd, Ghosts>>

\* lines 223, 233-234: root->lock_write(); current_node = root;
PutLockRoot(t) ==
    /\ th[t].pc = "put_223"
    /\ root # NullPtr
    /\ CanLockWrite(root)
    /\ wr' = [wr EXCEPT ![root] = t]
    /\ th' = [th EXCEPT ![t] = [@ EXCEPT !.pc = "put_236", !.current_node = root]]
    /\ UNCHANGED <<capacity, root, global_mutex, heap, rd, Ghosts>>

\* The pre-check written with < : a node is split only once it is over capacity.
FullOffByOne(n) == capacity < n.key_count

Full(n) == capacity <= n.key_count

\* lines 236-258: the root is a full leaf: split it and build the new root
PutLeafRootSplit(t) ==
    /\ th[t].pc = "put_236"
    /\ is_leaf(heap[th[t].current_node])
    /\ Full(heap[th[t].current_node])
    /\ \E junk \in Junk(heap[th[t].current_node]) :
         LET cur == th[t].current_node
             right_neighbor_node == Len(heap) + 1
             new_root == Len(heap) + 2
             sp == LeafSplit(heap[cur], junk)
             parent0 == [NewInnerNode EXCEPT !.level = 1, !.key_count = 1,
                                             !.children = Store(@, 0, root)]
             parent_node == InsertSplit(parent0, sp[3], right_neighbor_node)
         IN  /\ heap' = Append(Append([heap EXCEPT ![cur] = sp[1]], sp[2]), parent_node)
             /\ oob' = (oob \/ InsertSplitOverflows(parent0))
             /\ th' = [th EXCEPT ![t] = [@ EXCEPT !.pc = "put_260", !.target = cur,
                                                  !.right_neighbor_node = right_neighbor_node,
                                                  !.new_root = new_root,
                                                  !.separator_key = sp[3],
                                                  !.released = @ \cup {new_root}]]
    /\ wr' = Append(Append(wr, t), NoThread)
    /\ rd' = Append(Append(rd, NoReaders), NoReaders)
    /\ UNCHANGED <<capacity, root, global_mutex, nput, nget, ref, putters, lastIns, single, hist>>

\* line 260: root = new_root;
PutLeafRootSwap(t) ==
    /\ th[t].pc = "put_260"
    /\ root' = th[t].new_root
    /\ th' = [th EXCEPT ![t] = [@ EXCEPT !.pc = "put_261"]]
    /\ UNCHANGED <<capacity, global_mutex, heap, wr, rd, Ghosts>>

\* line 261: global_mutex.unlock();
PutLeafRootUnlockGlobal(t) ==
    /\ th[t].pc = "put_261"
    /\ global_mutex' = NoThread
    /\ th' = [th EXCEPT ![t] = [@ EXCEPT !.pc = "put_263"]]
    /\ UNCHANGED <<capacity, root, heap, wr, rd, Ghosts>>

\* The if/else that follows every split: keep the half the key belongs to, unlock
\* the other.  <<node kept, wr after the unlock>>
ChooseHalf(t, left) ==
    IF comparator(th[t].separator_key, th[t].key)
    THEN <<th[t].right_neighbor_node, UnlockWrite(wr, t, left)>>
    ELSE <<left, UnlockWrite(wr, t, th[t].right_neighbor_node)>>

\* The half that ChooseHalf unlocks.
OtherHalf(t, left) ==
    IF comparator(th[t].separator_key, th[t].key) THEN {left} ELSE {th[t].right_neighbor_node}

\* lines 263-270
PutLeafRootChoose(t) ==
    /\ th[t].pc = "put_263"
    /\ LET c == ChooseHalf(t, th[t].current_node)
       IN  /\ wr' = c[2]
           /\ th' = [th EXCEPT ![t] = [@ EXCEPT !.pc = "put_272", !.target = c[1],
                                                !.current_node = c[1],
                                                !.released = @ \cup OtherHalf(t, th[t].current_node)]]
    /\ UNCHANGED <<capacity, root, global_mutex, heap, rd, Ghosts>>

\* lines 275-276: the root is a leaf with room: global_mutex.unlock();
PutLeafRootNoSplit(t) ==
    /\ th[t].pc = "put_236"
    /\ is_leaf(heap[th[t].current_node])
    /\ ~Full(heap[th[t].current_node])
    /\ global_mutex' = NoThread
    /\ th' = [th EXCEPT ![t] = [@ EXCEPT !.pc = "put_272", !.target = th[t].current_node]]
    /\ UNCHANGED <<capacity, root, heap, wr, rd, Ghosts>>

\* lines 272-273 and 277-278, then 280: leafNode->insert(key, value);
\* current_node->unlock_write(); return;
PutLeafRootInsert(t) ==
    /\ th[t].pc = "put_272"
    /\ InsertIntoLeaf(t, th[t].target)
    /\ wr' = UnlockWrite(wr, t, th[t].current_node)
    /\ th' = [th EXCEPT ![t] = Idle]
    /\ UNCHANGED <<capacity, root, global_mutex, rd, nput, nget, ref, putters, single, hist>>

\* lines 283-293: the root is a full inner node: split it
PutInnerRootSplit(t) ==
    /\ th[t].pc = "put_236"
    /\ ~is_leaf(heap[th[t].current_node])
    /\ Full(heap[th[t].current_node])
    /\ LET cur == th[t].current_node
           right_neighbor_node == Len(heap) + 1
           new_root == Len(heap) + 2
           sp == InnerSplit(heap[cur])
       IN  /\ heap' = Append(Append([heap EXCEPT ![cur] = sp[1]],
                                    [sp[2] EXCEPT !.level = heap[cur].level]), NewInnerNode)
           /\ th' = [th EXCEPT ![t] = [@ EXCEPT !.pc = "put_295", !.target = cur,
                                                !.right_neighbor_node = right_neighbor_node,
                                                !.new_root = new_root,
                                                !.separator_key = sp[3]]]
    /\ wr' = Append(Append(wr, t), NoThread)
    /\ rd' = Append(Append(rd, NoReaders), NoReaders)
    /\ UNCHANGED <<capacity, root, global_mutex, Ghosts>>

\* lines 295-301
PutInnerRootChoose(t) ==
    /\ th[t].pc = "put_295"
    /\ LET c == ChooseHalf(t, th[t].current_node)
       IN  /\ wr' = c[2]
           /\ th' = [th EXCEPT ![t] = [@ EXCEPT !.pc = "put_303", !.current_node = c[1],
                                                !.released = @ \cup OtherHalf(t, th[t].current_node)]]
    /\ UNCHANGED <<capacity, root, global_mutex, heap, rd, Ghosts>>

\* The new root built without raising the level: parent_node->level = innerNode->level.
PutInnerRootSwapSameLevel(t) ==
    /\ th[t].pc = "put_303"
    /\ CanLockWrite(th[t].new_root)
    /\ wr' = [wr EXCEPT ![th[t].new_root] = t]
    /\ heap' = [heap EXCEPT ![th[t].new_root] =
                   [@ EXCEPT !.level = heap[th[t].target].level, !.key_count = 1,
                             !.children = Store(@, 0, root)]]
    /\ root' = th[t].new_root
    /\ th' = [th EXCEPT ![t] = [@ EXCEPT !.pc = "put_311"]]
    /\ UNCHANGED <<capacity, global_mutex, rd, Ghosts>>

\* lines 303-310: new_root->lock_write(); level, key_count, children[0]; root = new_root;
\* (target is innerNode, the node that was split)
PutInnerRootSwap(t) ==
    /\ th[t].pc = "put_303"
    /\ CanLockWrite(th[t].new_root)
    /\ wr' = [wr EXCEPT ![th[t].new_root] = t]
    /\ heap' = [heap EXCEPT ![th[t].new_root] =
                   [@ EXCEPT !.level = heap[th[t].target].level + 1, !.key_count = 1,
                             !.children = Store(@, 0, root)]]
    /\ root' = th[t].new_root
    /\ th' = [th EXCEPT ![t] = [@ EXCEPT !.pc = "put_311"]]
    /\ UNCHANGED <<capacity, global_mutex, rd, Ghosts>>

\* lines 311-312: parent_node->insert_split(...); parent_node->unlock_write();
PutInnerRootAbsorb(t) ==
    /\ th[t].pc = "put_311"
    /\ heap' = [heap EXCEPT ![th[t].new_root] =
                   InsertSplit(@, th[t].separator_key, th[t].right_neighbor_node)]
    /\ oob' = (oob \/ InsertSplitOverflows(heap[th[t].new_root]))
    /\ wr' = UnlockWrite(wr, t, th[t].new_root)
    /\ th' = [th EXCEPT ![t] = [@ EXCEPT !.pc = "put_314",
                                         !.released = @ \cup {th[t].new_root}]]
    /\ UNCHANGED <<capacity, root, global_mutex, rd, nput, nget, ref, putters, lastIns, single, hist>>

\* line 285 evaluated false: the root is an inner node with room
PutInnerRootNoSplit(t) ==
    /\ th[t].pc = "put_236"
    /\ ~is_leaf(heap[th[t].current_node])
    /\ ~Full(heap[th[t].current_node])
    /\ th' = [th EXCEPT ![t] = [@ EXCEPT !.pc = "put_314"]]
    /\ UNCHANGED <<capacity, root, global_mutex, heap, wr, rd, Ghosts>>

\* line 314: global_mutex.unlock();
PutUnlockGlobal(t) ==
    /\ th[t].pc = "put_314"
    /\ global_mutex' = NoThread
    /\ th' = [th EXCEPT ![t] = [@ EXCEPT !.pc = "put_317", !.target = 0,
                                         !.right_neighbor_node = 0, !.new_root = 0,
                                         !.separator_key = 0]]
    /\ UNCHANGED <<capacity, root, heap, wr, rd, Ghosts>>

\* ------------------------------------------------- put: lock coupling loop
\* lines 317-319: the child the key routes to (current_node is write-locked by t)
RouteChild(t) ==
    LET n == heap[th[t].current_node]
    IN  Load(n.children, InnerLowerBound(n, th[t].key)[1], NullPtr)

\* lines 317-320: child_node->lock_write();
PutLockChild(t) ==
    /\ th[t].pc = "put_317"
    /\ RouteChild(t) # NullPtr
    /\ CanLockWrite(RouteChild(t))
    /\ wr' = [wr EXCEPT ![RouteChild(t)] = t]
    /\ th' = [th EXCEPT ![t] = [@ EXCEPT !.pc = "put_322", !.child_node = RouteChild(t),
                                         !.target = RouteChild(t)]]
    /\ UNCHANGED <<capacity, root, global_mutex, heap, rd, Ghosts>>

\* lines 322-329: the child is a full leaf: split it
PutLeafChildSplit(t) ==
    /\ th[t].pc = "put_322"
    /\ heap[th[t].current_node].level = 1
    /\ Full(heap[th[t].child_node])
    /\ \E junk \in Junk(heap[th[t].child_node]) :
         LET sp == LeafSplit(heap[th[t].child_node], junk)
         IN  /\ heap' = Append([heap EXCEPT ![th[t].child_node] = sp[1]], sp[2])
             /\ th' = [th EXCEPT ![t] = [@ EXCEPT !.pc = "put_331",
                                                  !.right_neighbor_node = Len(heap) + 1,
                                                  !.separator_key = sp[3]]]
    /\ wr' = Append(wr, t)
    /\ rd' = Append(rd, NoReaders)
    /\ UNCHANGED <<capacity, root, global_mutex, Ghosts>>

\* lines 331-337
PutLeafChildChoose(t) ==
    /\ th[t].pc = "put_331"
    /\ LET c == ChooseHalf(t, th[t].child_node)
       IN  /\ wr' = c[2]
           /\ th' = [th EXCEPT ![t] = [@ EXCEPT !.pc = "put_338", !.target = c[1],
                                                !.released = @ \cup OtherHalf(t, th[t].child_node)]]
    /\ UNCHANGED <<capacity, root, global_mutex, heap, rd, Ghosts>>

\* The step innerNode->insert_split(separator_key, right_neighbor_node) on current_node.
AbsorbIntoCurrent(t) ==
    /\ heap' = [heap EXCEPT ![th[t].current_node] =
                   InsertSplit(@, th[t].separator_key, th[t].right_neighbor_node)]
    /\ oob' = (oob \/ InsertSplitOverflows(heap[th[t].current_node]))

\* line 338
PutLeafChildAbsorb(t) ==
    /\ th[t].pc = "put_338"
    /\ AbsorbIntoCurrent(t)
    /\ th' = [th EXCEPT ![t] = [@ EXCEPT !.pc = "put_341"]]
    /\ UNCHANGED <<capacity, root, global_mutex, wr, rd, nput, nget, ref, putters, lastIns, single, hist>>

\* line 325 evaluated false: the leaf child has room
PutLeafChildNoSplit(t) ==
    /\ th[t].pc = "put_322"
    /\ heap[th[t].current_node].level = 1
    /\ ~Full(heap[th[t].child_node])
    /\ th' = [th EXCEPT ![t] = [@ EXCEPT !.pc = "put_341"]]
    /\ UNCHANGED <<capacity, root, global_mutex, heap, wr, rd, Ghosts>>

\* lines 341-345: child_node_leaf->insert(key, value); current_node->unlock_write();
\* child_node_leaf->unlock_write(); return;
PutLeafChildInsert(t) ==
    /\ th[t].pc = "put_341"
    /\ InsertIntoLeaf(t, th[t].target)
    /\ wr' = UnlockWrite(UnlockWrite(wr, t, th[t].current_node), t, th[t].target)
    /\ th' = [th EXCEPT ![t] = Idle]
    /\ UNCHANGED <<capacity, root, global_mutex, rd, nput, nget, ref, putters, single, hist>>

\* lines 348-355: the child is a full inner node: split it
PutInnerChildSplit(t) ==
    /\ th[t].pc = "put_322"
    /\ heap[th[t].current_node].level # 1
    /\ Full(heap[th[t].child_node])
    /\ LET sp == InnerSplit(heap[th[t].child_node])
       IN  /\ heap' = Append([heap EXCEPT ![th[t].child_node] = sp[1]],
                             [sp[2] EXCEPT !.level = heap[th[t].child_node].level])
           /\ th' = [th EXCEPT ![t] = [@ EXCEPT !.pc = "put_357",
                                                !.right_neighbor_node = Len(heap) + 1,
                                                !.separator_key = sp[3]]]
    /\ wr' = Append(wr, t)
    /\ rd' = Append(rd, NoReaders)
    /\ UNCHANGED <<capacity, root, global_mutex, Ghosts>>

\* lines 357-363
PutInnerChildChoose(t) ==
    /\ th[t].pc = "put_357"
    /\ LET c == ChooseHalf(t, th[t].child_node)
       IN  /\ wr' = c[2]
           /\ th' = [th EXCEPT ![t] = [@ EXCEPT !.pc = "put_364", !.target = c[1],
                                                !.released = @ \cup OtherHalf(t, th[t].child_node)]]
    /\ UNCHANGED <<capacity, root, global_mutex, heap, rd, Ghosts>>

\* line 364
PutInnerChildAbsorb(t) ==
    /\ th[t].pc = "put_364"
    /\ AbsorbIntoCurrent(t)
    /\ th' = [th EXCEPT ![t] = [@ EXCEPT !.pc = "put_366"]]
    /\ UNCHANGED <<capacity, root, global_mutex, wr, rd, nput, nget, ref, putters, lastIns, single, hist>>

\* line 350 evaluated false: the inner child has room
PutInnerChildNoSplit(t) ==
    /\ th[t].pc = "put_322"
    /\ heap[th[t].current_node].level # 1
    /\ ~Full(heap[th[t].child_node])
    /\ th' = [th EXCEPT ![t] = [@ EXCEPT !.pc = "put_366"]]
    /\ UNCHANGED <<capacity, root, global_mutex, heap, wr, rd, Ghosts>>

\* lines 366-367: current_node->unlock_write(); current_node = child_node_inner;
PutDescend(t) ==
    /\ th[t].pc = "put_366"
    /\ wr' = UnlockWrite(wr, t, th[t].current_node)
    /\ th' = [th EXCEPT ![t] = [@ EXCEPT !.pc = "put_317", !.current_node = th[t].target,
                                         !.child_node = 0, !.target = 0,
                                         !.right_neighbor_node = 0, !.separator_key = 0,
                                         !.released = @ \cup {th[t].current_node}]]
    /\ UNCHANGED <<capacity, root, global_mutex, heap, rd, Ghosts>>

\* ------------------------------------------------------------ specification
Get(t) ==
    \/ GetCall(t)
    \/ GetReadRoot(t)
    \/ GetLockRoot(t)
    \/ GetSetCurrent(t)
    \/ GetRoute(t)
    \/ GetLockChild(t)
    \/ GetUnlockParent(t)
    \/ GetLeaf(t)

Put(t) ==
    \/ PutCall(t)
    \/ PutLockGlobal(t)
    \/ PutEmptyRoot(t)
    \/ PutEmptyInsert(t)
    \/ PutEmptyUnlock(t)
    \/ PutLockRoot(t)
    \/ PutLeafRootSplit(t)
    \/ PutLeafRootSwap(t)
    \/ PutLeafRootUnlockGlobal(t)
    \/ PutLeafRootChoose(t)
    \/ PutLeafRootNoSplit(t)
    \/ PutLeafRootInsert(t)
    \/ PutInnerRootSplit(t)
    \/ PutInnerRootChoose(t)
    \/ PutInnerRootSwap(t)
    \/ PutInnerRootAbsorb(t)
    \/ PutInnerRootNoSplit(t)
    \/ PutUnlockGlobal(t)
    \/ PutLockChild(t)
    \/ PutLeafChildSplit(t)
    \/ PutLeafChildChoose(t)
    \/ PutLeafChildAbsorb(t)
    \/ PutLeafChildNoSplit(t)
    \/ PutLeafChildInsert(t)
    \/ PutInnerChildSplit(t)
    \/ PutInnerChildChoose(t)
    \/ PutInnerChildAbsorb(t)
    \/ PutInnerChildNoSplit(t)
    \/ PutDescend(t)

Next == \E t \in Threads : Get(t) \/ Put(t)

Spec == Init /\ [][Next]_vars

\* One thread only: the single-threaded runs.
NextSeq == Get(1) \/ Put(1)

SeqSpec == InitSeq /\ [][NextSeq]_vars

\* ------------------------------------------------------- derived notions
AllIdle == \A t \in Threads : th[t].pc = "idle"

Nodes == 1..Len(heap)

Leaves == {id \in Nodes : is_leaf(heap[id])}

Inners == {id \in Nodes : ~is_leaf(heap[id])}

\* The leaf get reaches from node id when no other thread runs (lines 193-202).
RECURSIVE LeafFor(_, _)
LeafFor(id, key) ==
    IF is_leaf(heap[id])
    THEN id
    ELSE LeafFor(Load(heap[id].children, InnerLowerBound(heap[id], key)[1], NullPtr), key)

\* What get(key) may return when no other thread runs (lines 184-215).
GetResults(key) ==
    IF root = NullPtr
    THEN {Nullopt}
    ELSE LET n == heap[LeafFor(root, key)]
         IN  {LET lb == LeafLowerBound(n, key, junk)
              IN  IF lb[2] THEN Load(n.values, lb[1], junk) ELSE Nullopt : junk \in Junk(n)}

\* The slots of leaf id that hold key, reading a slot past the array as junk.
EntriesIn(id, key, junk) ==
    {i \in 0..(heap[id].key_count - 1) : Load(heap[id].keys, i, junk) = key}

RECURSIVE SumOver(_, _, _)
SumOver(S, key, junk) ==
    IF S = {}
    THEN 0
    ELSE LET id == CHOOSE x \in S : TRUE
         IN  Cardinality(EntriesIn(id, key, junk)) + SumOver(S \ {id}, key, junk)

\* The number of entries with this key over all leaves.
EntryCount(key, junk) == SumOver(Leaves, key, junk)

AnyJunk == IF \E id \in Leaves : heap[id].key_count > capacity THEN Keys ELSE {NoKey}

\* ------------------------------------------------------------------ claims
\* The keys thread t has called put on.
PutBy(t) == {k \in Keys : t \in putters[k]}

\* Every thread has put exactly the keys of its own range, each once.
DisjointRangesDone ==
    /\ ~single
    /\ AllIdle
    /\ \A t \in Threads : PutBy(t) = Range(t)
    /\ nput = NumThreads * RangeLen

\* C1: concurrent disjoint insert.  Once T threads have each put the keys of their
\* own contiguous range and all have returned, get(k) returns the value put for k,
\* for every one of the T*N keys.
C1_ConcurrentDisjointInsert ==
    DisjointRangesDone =>
        \A t \in Threads : \A k \in Range(t) : GetResults(k) = {ref[k]}

\* C2: read your own write.  A get(k) of a thread that alone has put k, after its
\* put returned, yields the value it put, whatever the other threads put meanwhile.
C2_ReadYourOwnWrite ==
    \A t \in Threads :
        (/\ th[t].pc = "idle"
         /\ th[t].retkey # NoKey
         /\ putters[th[t].retkey] = {t})
        => th[t].result = ref[th[t].retkey]

\* C2: read your own write, on the runs in which no store past the end of an array
\* has happened.  A get(k) of a thread that alone has put k, after its put returned,
\* yields the value it put while other threads put other keys.  A run that violates
\* this violates C2_ReadYourOwnWrite through the lock protocol alone.
C2_ReadYourOwnWriteInBounds == oob \/ C2_ReadYourOwnWrite

\* C3: round trip, one thread.  After any sequence of put calls, get(k) returns
\* what the reference map holds for k, for every key that was put.
C3_RoundTrip ==
    (single /\ AllIdle) =>
        /\ \A k \in Keys : ref[k] # Nullopt => GetResults(k) = {ref[k]}
        /\ (th[1].retkey # NoKey /\ ref[th[1].retkey] # Nullopt)
              => th[1].result = ref[th[1].retkey]

\* A step of a call that is under way.
StepInFlight == \E t \in Threads : th[t].pc # "idle" /\ (Get(t) \/ Put(t))

\* C4: no deadlock.  Whenever a call is under way, some call under way can take a
\* step: no state has every running call blocked on a lock.
C4_NoDeadlock == (\E t \in Threads : th[t].pc # "idle") => ENABLED StepInFlight

\* C5: update semantics, one thread.  After put(k, v1), put(k, v2) the tree holds
\* exactly one entry for k and get(k) returns v2.
C5_UpdateSemantics ==
    (/\ single
     /\ AllIdle
     /\ Len(hist) >= 2
     /\ hist[Len(hist)] = hist[Len(hist) - 1])
    => LET k == hist[Len(hist)]
       IN  /\ GetResults(k) = {ref[k]}
           /\ \A junk \in AnyJunk : EntryCount(k, junk) = 1

\* C6: last write wins.  When two threads have put the same key and both have
\* returned, the tree holds exactly one entry for it, with the value of the put
\* whose LeafNode::insert ran last.
C6_LastWriteWins ==
    \A k \in Keys :
        (/\ ~single
         /\ AllIdle
         /\ putters[k] = Threads)
        => /\ \A junk \in AnyJunk : EntryCount(k, junk) = 1
           /\ GetResults(k) = {lastIns[k]}

\* C7: absence.  get(k) returns absent for a key no put was ever called on.
C7_Absence ==
    \A t \in Threads :
        (/\ th[t].pc = "idle"
         /\ th[t].retkey # NoKey
         /\ putters[th[t].retkey] = {})
        => th[t].result = Nullopt

Increasing(seq) == \A i \in 1..(Len(seq) - 1) : seq[i] < seq[i + 1]

\* capacity + 1 distinct increasing keys have been put into a fresh tree
FirstSplitDone ==
    /\ single
    /\ AllIdle
    /\ Len(hist) = capacity + 1
    /\ Increasing(hist)

\* C8: split correctness.  After capacity + 1 distinct increasing keys the root is
\* an inner node of level 1 with exactly two leaf children, and get finds every key.
C8_SplitCorrectness ==
    FirstSplitDone =>
        /\ root # NullPtr
        /\ heap[root].level = 1
        /\ heap[root].key_count = 2
        /\ \A i \in 0..1 : heap[root].children[i] \in Leaves
        /\ heap[root].children[0] # heap[root].children[1]
        /\ \A i \in 1..Len(hist) : GetResults(hist[i]) = {ref[hist[i]]}

\* The first split has been made and a get of the last key put has returned it.
C8_Witness ==
    /\ FirstSplitDone
    /\ th[1].retkey = hist[Len(hist)]
    /\ th[1].result = ref[hist[Len(hist)]]

\* C9: sorted invariant.  The valid keys of every leaf and the separators of every
\* inner node are strictly ascending.
C9_Sorted ==
    /\ \A id \in Leaves : \A junk \in Junk(heap[id]) :
          \A i \in 0..(heap[id].key_count - 2) :
              Load(heap[id].keys, i, junk) < Load(heap[id].keys, i + 1, junk)
    /\ \A id \in Inners :
          \A i \in 0..(heap[id].key_count - 3) : heap[id].keys[i] < heap[id].keys[i + 1]

\* The pcs at which a split has been made and its separator is not yet in the parent.
SplitPending(t) == th[t].pc \in {"put_260", "put_295", "put_303", "put_311",
                                 "put_331", "put_338", "put_357", "put_364"}

\* The node that was split at these pcs.
SplitNode(t) == IF th[t].pc \in {"put_260", "put_295", "put_303", "put_311"}
                THEN th[t].target ELSE th[t].child_node

\* C10: split release ordering.  While the separator of a split is not yet in the
\* parent (or the new root not yet installed with it), both halves are write-locked
\* by the splitting thread.
C10_SplitReleaseOrder ==
    \A t \in Threads :
        SplitPending(t) =>
            /\ wr[th[t].right_neighbor_node] = t
            /\ wr[SplitNode(t)] = t


\* The thread that takes the step.
Actor(t) == th'[t] # th[t]

\* C11: mutation only under the protecting lock.  Every step that changes the
\* keys, values, children or key_count of an existing node is taken by a thread
\* that holds the node's mtx exclusively (held before the step or acquired in it),
\* and every step that changes the root pointer by a thread holding global_mutex.
C11_MutationUnderLock ==
    [][/\ \A id \in 1..Len(heap) :
            heap'[id] # heap[id] =>
                \E t \in Threads : Actor(t) /\ (wr[id] = t \/ wr'[id] = t)
       /\ root' # root => \E t \in Threads : Actor(t) /\ global_mutex = t]_vars


\* The node locks thread t holds, in either mode.
Held(t) == {n \in Nodes : wr[n] = t \/ rd[n][t] > 0}

\* The node whose lock thread t requests at its next step (NullPtr when none).
WaitsFor(t) ==
    CASE th[t].pc = "get_189_lock" -> th[t].root_read
      [] th[t].pc = "get_198" -> th[t].child_node
      [] th[t].pc = "put_223" -> root
      [] th[t].pc = "put_303" -> th[t].new_root
      [] th[t].pc = "put_317" -> RouteChild(t)
      [] OTHER -> NullPtr

\* Thread t requests a node lock that it cannot get now.
Blocked(t) ==
    /\ WaitsFor(t) # NullPtr
    /\ IF th[t].pc \in {"get_189_lock", "get_198"}
       THEN ~CanLockRead(WaitsFor(t))
       ELSE ~CanLockWrite(WaitsFor(t))

\* Thread t acquires the lock of node n in this step.
Acquires(t, n) == (wr'[n] = t /\ wr[n] # t) \/ rd'[n][t] > rd[n][t]

\* No thread waits for a node at a shallower or equal level than one it holds.
WaitsOnlyDownwards ==
    \A t \in Threads :
        Blocked(t) => \A m \in Held(t) : heap[WaitsFor(t)].level < heap[m].level

\* No thread acquires again a node lock it has released in the same operation.
NoReacquire ==
    [][\A t \in Threads : \A n \in Nodes : Acquires(t, n) => n \notin th[t].released]_vars

\* C12: top-down lock order.  No thread re-acquires a node lock it has released
\* within the same operation, and no thread is blocked waiting for the lock of a
\* node at a shallower or equal level than a node whose lock it holds (so the locks
\* of a fresh right sibling and of a fresh new root are never contended).
C12_TopDownLockOrder == NoReacquire /\ []WaitsOnlyDownwards


\* A thread that is in no call holds no node lock and not global_mutex.
ReturnsWithoutLocks ==
    \A t \in Threads : th[t].pc = "idle" => (Held(t) = {} /\ global_mutex # t)

\* The node locks thread t unlocks at its next step, with the mode it unlocks.
UnlocksRead(t) ==
    IF th[t].pc = "get_199" \/ (th[t].pc = "get_193" /\ is_leaf(heap[th[t].current_node]))
    THEN {th[t].current_node}
    ELSE {}

UnlocksWrite(t) ==
    CASE th[t].pc \in {"put_263", "put_295"} -> OtherHalf(t, th[t].current_node)
      [] th[t].pc \in {"put_331", "put_357"} -> OtherHalf(t, th[t].child_node)
      [] th[t].pc \in {"put_272", "put_366"} -> {th[t].current_node}
      [] th[t].pc = "put_311" -> {th[t].new_root}
      [] th[t].pc = "put_341" -> {th[t].current_node, th[t].target}
      [] OTHER -> {}

\* Thread t unlocks global_mutex at its next step.
UnlocksGlobal(t) ==
    \/ th[t].pc \in {"put_227", "put_261", "put_314"}
    \/ th[t].pc = "put_236" /\ is_leaf(heap[th[t].current_node])
                            /\ ~Full(heap[th[t].current_node])

\* Every unlock is of a lock the thread holds, in the mode it holds it.
UnlocksOnlyHeld ==
    \A t \in Threads :
        /\ \A n \in UnlocksRead(t) : rd[n][t] > 0
        /\ \A n \in UnlocksWrite(t) : wr[n] = t
        /\ UnlocksGlobal(t) => global_mutex = t

\* C13: paired release.  On every exit path of get and put the returning thread
\* holds no node lock and not the tree-wide lock, and no thread ever unlocks a lock
\* it does not hold.
C13_PairedRelease == ReturnsWithoutLocks /\ UnlocksOnlyHeld


InGet(t) == th[t].pc \in {"get_189", "get_189_lock", "get_190", "get_193", "get_198", "get_199"}

\* The node locks a get is meant to hold at each point: none before the root is
\* locked, then the current node, and the current node with its child between the
\* child's lock_read and the parent's unlock_read.
GetFootprint(t) ==
    CASE th[t].pc = "get_190" -> {th[t].root_read}
      [] th[t].pc \in {"get_193", "get_198"} -> {th[t].current_node}
      [] th[t].pc = "get_199" -> {th[t].current_node, th[t].child_node}
      [] OTHER -> {}

\* C14: lookup lock footprint.  At every point of a get the calling thread holds at
\* most two node locks, a parent and its child, both in shared mode; the child is
\* locked when the parent is about to be released; the thread holds no lock in
\* exclusive mode and not the tree-wide lock.
C14_LookupFootprint ==
    \A t \in Threads :
        InGet(t) =>
            /\ Cardinality(Held(t)) <= 2
            /\ Held(t) \subseteq GetFootprint(t)
            /\ th[t].pc = "get_199" =>
                  /\ rd[th[t].child_node][t] > 0
                  /\ \E i \in 0..(heap[th[t].current_node].key_count - 1) :
                        Load(heap[th[t].current_node].children, i, NullPtr) = th[t].child_node
            /\ \A n \in Nodes : wr[n] # t
            /\ global_mutex # t


\* The positions of put between global_mutex.lock() and global_mutex.unlock(): the
\* empty-tree bootstrap (lines 223-227) and the root pre-check and split (233-314).
GlobalSection == {"put_223", "put_226", "put_227", "put_236", "put_260", "put_261",
                  "put_295", "put_303", "put_311", "put_314"}

\* Holding global_mutex, a thread is in the bootstrap or the root section of put,
\* and its node locks are on the root, the split root, its fresh right sibling or
\* the fresh new root.
GlobalScope ==
    \A t \in Threads :
        global_mutex = t =>
            /\ th[t].pc \in GlobalSection
            /\ Held(t) \subseteq
                   {root, th[t].target, th[t].right_neighbor_node, th[t].new_root}
            /\ th[t].target # NullPtr =>
                   (th[t].target = root \/ th[t].new_root = root)

\* global_mutex is acquired by the first step of a put and by no later one.
GlobalOnce ==
    [][\A t \in Threads :
          (global_mutex' = t /\ global_mutex # t) => th[t].pc = "put_220"]_vars

\* C15: tree-wide lock scope.  A thread in put holds global_mutex only during the
\* empty-tree bootstrap or the root pre-check and root split; while it holds it, its
\* node locks are on the root, the root's fresh split sibling and the fresh new root
\* only; and it never acquires global_mutex again in the same put.
C15_GlobalLockScope == []GlobalScope /\ GlobalOnce


\* The inner node on which thread t calls insert_split at its next step.
AbsorbingNode(t) ==
    CASE th[t].pc \in {"put_338", "put_364"} -> th[t].current_node
      [] th[t].pc = "put_311" -> th[t].new_root
      [] OTHER -> NullPtr

\* C16: the parent always has room.  Whenever put is about to call insert_split on
\* an inner node to absorb the separator of a split, that node's key_count is
\* strictly below capacity.
C16_ParentHasRoom ==
    \A t \in Threads :
        AbsorbingNode(t) # NullPtr => heap[AbsorbingNode(t)].key_count < capacity

\* A put is about to absorb the separator of a child split into a node that has
\* exactly one free slot.
C16_Witness ==
    \E t \in Threads :
        /\ th[t].pc \in {"put_338", "put_364"}
        /\ heap[th[t].current_node].key_count = capacity - 1


\* Thread t has just run LeafNode::split or InnerNode::split and holds both halves.
JustSplit(t) == th[t].pc \in {"put_260", "put_295", "put_331", "put_357"}

\* C17: a split leaves two non-empty halves.  Right after the split of a full leaf
\* or of a full inner node, the original node and the new right sibling each have a
\* count of at least 1, and the original node has a count strictly below capacity.
C17_SplitHalves ==
    \A t \in Threads :
        JustSplit(t) =>
            /\ heap[SplitNode(t)].key_count >= 1
            /\ heap[th[t].right_neighbor_node].key_count >= 1
            /\ heap[SplitNode(t)].key_count < capacity


\* C18: capacity bound.  Every node has 0 <= key_count <= capacity, and neither
\* LeafNode::insert nor InnerNode::insert_split has stored a key, value or child at
\* an index >= capacity.
C18_CapacityBound ==
    /\ \A id \in Nodes : heap[id].key_count \in 0..capacity
    /\ ~oob


\* The children an inner node counts as valid: children[0 .. key_count-1].
ChildrenOf(id) ==
    {Load(heap[id].children, i, NullPtr) : i \in 0..(heap[id].key_count - 1)}

\* The nodes below and including id.
RECURSIVE Subtree(_)
Subtree(id) ==
    IF id = NullPtr
    THEN {}
    ELSE IF is_leaf(heap[id])
         THEN {id}
         ELSE {id} \cup UNION {Subtree(c) : c \in ChildrenOf(id)}

\* The keys a search of leaf id may see in its valid slots; a slot past the end of
\* the array may show any key.
LeafKeys(id) ==
    {Load(heap[id].keys, i, junk) : i \in 0..(heap[id].key_count - 1), junk \in Junk(heap[id])}

\* The keys held in the leaves below id.
KeysUnder(id) == UNION {LeafKeys(l) : l \in {x \in Subtree(id) : is_leaf(heap[x])}}

\* The smallest index whose separator is not less than key, or key_count - 1.
SmallestNotLess(n, key) ==
    LET S == {i \in 0..(n.key_count - 2) : ~comparator(n.keys[i], key)}
    IN  IF S = {} THEN n.key_count - 1 ELSE CHOOSE i \in S : \A j \in S : i <= j

\* C19: inner-node routing.  In every inner node reachable from the root,
\* children[0 .. key_count-1] are valid nodes; lower_bound(key) returns the smallest
\* index whose separator is not less than key, or key_count - 1 when there is none;
\* and no child other than the one selected holds key in its subtree.
C19_InnerRouting ==
    \A id \in Subtree(root) :
        ~is_leaf(heap[id]) =>
            LET n == heap[id]
            IN  /\ NullPtr \notin ChildrenOf(id)
                /\ Cardinality(ChildrenOf(id)) = n.key_count
                /\ \A k \in Keys :
                      LET pos == InnerLowerBound(n, k)[1]
                      IN  /\ pos = SmallestNotLess(n, k)
                          /\ \A i \in 0..(n.key_count - 1) :
                                i # pos => k \notin KeysUnder(n.children[i])


\* Every valid child of an inner node of the tree is one level below its parent.
ChildLevels ==
    \A id \in Subtree(root) :
        ~is_leaf(heap[id]) =>
            \A c \in ChildrenOf(id) : c # NullPtr /\ heap[c].level = heap[id].level - 1

\* The leaves of the tree all lie at the depth given by the root's level.
RECURSIVE Depths(_)
Depths(id) ==
    IF is_leaf(heap[id])
    THEN {0}
    ELSE {d + 1 : d \in UNION {Depths(c) : c \in ChildrenOf(id) \ {NullPtr}}}

LeavesAtOneDepth == root # NullPtr => Depths(root) = {heap[root].level}

\* A node keeps the kind it was constructed with: a LeafNode (level 0) stays at
\* level 0 and an InnerNode (level >= 1) never gets level 0.
KindKept ==
    \A id \in DOMAIN heap : is_leaf(heap'[id]) = is_leaf(heap[id])

\* A step that replaces the root installs a node one level above the old root whose
\* children[0] is the old root; the root is never set back to absent.
RootReplacement ==
    root' # root =>
        /\ root' # NullPtr
        /\ root # NullPtr =>
              /\ heap'[root'].level = heap[root].level + 1
              /\ heap'[root'].key_count >= 1
              /\ heap'[root'].children[0] = root

\* C20: level invariant.  In every reachable state every valid child of an inner
\* node of level L has level L-1, so that all leaves are at the same depth and a leaf
\* is exactly a node of level 0 for as long as it lives; each replacement of the root
\* installs a new root of the old root's level + 1 with the old root as children[0];
\* and the root never returns to absent once set.
C20_LevelInvariant ==
    /\ [](ChildLevels /\ LeavesAtOneDepth)
    /\ [][KindKept /\ RootReplacement]_vars

\* A put has split an inner root and an inner child: the tree is three levels high.
C20_Witness ==
    /\ root # NullPtr
    /\ heap[root].level = 3
    /\ heap[root].key_count = 2
    /\ \E t \in Threads : th[t].pc = "put_357"

====
